---- MODULE Spec2Model ----
(***************************************************************************)
(* Model of pylearn2/scripts/dbm/top_filters.py: one run of the script,    *)
(* from the argument check to the second image.                            *)
(*                                                                         *)
(* Numbers.  The weights are floats in the program.  A saved weight is an  *)
(* integer here, and every array entry is the exact fraction num/den,      *)
(* where den belongs to the entry's column: the only division the script   *)
(* does (w /= np.abs(w).max()) divides a whole column by one number.       *)
(* den = 0 stands for NaN, the result of 0/0 on an all-zero column; every  *)
(* ordered comparison and every equality with a NaN is false, as in IEEE.  *)
(* For the small integers used, .9 * total rounds to the exact 9*total/10  *)
(* whenever that is an integer, so s.sum() < thresh * total is the exact   *)
(* comparison thresh_den * sum < thresh_num * total.                       *)
(*                                                                         *)
(* Indices are 1-based: unit k here is index k-1 in the program.           *)
(***************************************************************************)
EXTENDS Integers, Sequences, FiniteSets, TLC

VARIABLES argv, pkl, pc, err, model_path, out_prefix, heap, W1, W2,
          sc, idxs, gec, ccv, outputs

vars == <<argv, pkl, pc, err, model_path, out_prefix, heap, W1, W2,
          sc, idxs, gec, ccv, outputs>>

-----------------------------------------------------------------------------
(* Bounds of the inputs *)

\* the exhaustive family: every W2 with at most MaxCells entries
MaxCells == 4
\* the wide family: W2 with WideN1 rows (enough first-layer units for lim to bind)
WideN1 == 12
\* the many-column family: W2 with ManyN2 columns (more than the row limit)
ManyN2 == 101

Vals == {-1, 0, 1, 2}

-----------------------------------------------------------------------------
(* Program constants *)

thresh_num == 9
thresh_den == 10
lim == 10
row_limit == 100

NoArray == [num |-> <<>>, den |-> <<>>]

-----------------------------------------------------------------------------
(* Arithmetic on fractions; den = 0 is NaN *)

Min(a, b) == IF a <= b THEN a ELSE b
Max(a, b) == IF a >= b THEN a ELSE b
AbsInt(x) == IF x < 0 THEN -x ELSE x

Frac(n, d) == [num |-> n, den |-> d]
Zero == Frac(0, 1)
IsNaN(a) == a.den = 0
FLess(a, b) == ~IsNaN(a) /\ ~IsNaN(b) /\ a.num * b.den < b.num * a.den
FEq(a, b) == ~IsNaN(a) /\ ~IsNaN(b) /\ a.num * b.den = b.num * a.den
FNeg(a) == Frac(-a.num, a.den)
FAbs(a) == Frac(AbsInt(a.num), a.den)
FAdd(a, b) == IF IsNaN(a) \/ IsNaN(b) THEN Frac(0, 0)
              ELSE Frac(a.num * b.den + b.num * a.den, a.den * b.den)
FMul(a, b) == IF IsNaN(a) \/ IsNaN(b) THEN Frac(0, 0)
              ELSE Frac(a.num * b.num, a.den * b.den)
\* a / b with b >= 0 (the only divisor in the program is a maximum of
\* absolute values); 0/0 and NaN/x are NaN
FDiv(a, b) == IF IsNaN(a) \/ IsNaN(b) \/ (b.num = 0 /\ a.num = 0) THEN Frac(0, 0)
              ELSE Frac(a.num * b.den, a.den * b.num)

RECURSIVE FSum(_)
FSum(q) == IF q = <<>> THEN Zero ELSE FAdd(q[1], FSum(Tail(q)))

RECURSIVE FMaxSeq(_)
\* np.max of a non-empty vector; a NaN anywhere gives NaN
FMaxSeq(q) == IF Len(q) = 1 THEN q[1]
              ELSE LET m == FMaxSeq(Tail(q))
                   IN  IF IsNaN(q[1]) \/ IsNaN(m) THEN Frac(0, 0)
                       ELSE IF FLess(m, q[1]) THEN q[1] ELSE m

-----------------------------------------------------------------------------
(* Arrays: num[r][c] / den[c] *)

\* a Python list: the elements are computed once, when the list is built
list(f) == SubSeq(f, 1, Len(f))

Rows(A) == Len(A.num)
Cols(A) == Len(A.den)
Entry(A, r, c) == Frac(A.num[r][c], A.den[c])
\* A[:, c] as a vector of values
Column(A, c) == list([r \in 1..Rows(A) |-> Entry(A, r, c)])
\* an array as loaded from the saved model: integers
Loaded(m) == [num |-> m, den |-> [c \in 1..Len(m[1]) |-> 1]]

RECURSIVE SetColumnRows(_, _, _, _)
\* num[r][c] = col[r] for the rows r and below
SetColumnRows(num, c, col, r) ==
    IF r = 0 THEN num
    ELSE SetColumnRows([num EXCEPT ![r][c] = col[r]], c, col, r - 1)

\* A[:, c] = B[:, d]
SetColumn(A, c, B, d) ==
    [num |-> SetColumnRows(A.num, c, list([r \in 1..Rows(B) |-> B.num[r][d]]), Rows(A)),
     den |-> [A.den EXCEPT ![c] = B.den[d]]]

-----------------------------------------------------------------------------
(* Python's sorted() on a list of tuples *)

RECURSIVE TupleLess(_, _)
\* a < b for two tuples of numbers: the first position where the elements
\* are not equal decides; a NaN is equal to nothing and less than nothing
TupleLess(a, b) ==
    IF a = <<>> \/ b = <<>> THEN a = <<>> /\ b # <<>>
    ELSE IF FEq(a[1], b[1]) THEN TupleLess(Tail(a), Tail(b))
    ELSE FLess(a[1], b[1])

\* sorted(q): a stable sort.  Element k goes behind the elements less than it
\* and behind the earlier elements it is not ordered against; a list whose
\* comparisons are all false (a column of NaN) keeps its order
sorted(q0) ==
    LET q   == list(q0)
        n   == Len(q)
        pos == list([k \in 1..n |->
                  1 + Cardinality({l \in 1..n :
                          \/ TupleLess(q[l], q[k])
                          \/ (l < k /\ ~TupleLess(q[k], q[l]))})])
    IN  list([p \in 1..n |-> q[CHOOSE k \in 1..n : pos[k] = p]])

-----------------------------------------------------------------------------
(* sort_layer2 *)

\* norms = np.square(W2).sum(axis=0)
Norms(A) == list([c \in 1..Cols(A) |->
                  FSum([r \in 1..Rows(A) |-> FMul(Entry(A, r, c), Entry(A, r, c))])])

\* zip(norms, range(...)) without the minus sign
SortKeysAscending(norms) == list([c \in 1..Len(norms) |-> <<norms[c], Frac(c, 1)>>])

\* zip(-norms, range(norms.shape[0]))
SortKeys(norms) == list([c \in 1..Len(norms) |-> <<FNeg(norms[c]), Frac(c, 1)>>])

\* idxs = [elem[1] for elem in sorted(...)]
Idxs(A) == LET s == sorted(SortKeys(Norms(A)))
           IN  list([k \in 1..Len(s) |-> s[k][2].num])

\* W2.copy() handing back the array it was given
copy_alias(a) == a

\* the address of the array W2.copy() allocates
copy(a) == a + 1

RECURSIVE sort_loop(_, _, _, _, _, _)
\* for i in xrange(len(idxs)): new[:, i] = W2[:, idxs[i]], for i = lo..hi in
\* increasing order.  The range is split in two, and the first half is
\* evaluated before the second is entered (that is all the IF is for), so
\* that the evaluation stays shallow on an array of many columns
sort_loop(h, new, src, ix, lo, hi) ==
    IF lo > hi THEN h
    ELSE IF lo = hi THEN [h EXCEPT ![new] = SetColumn(h[new], lo, h[src], ix[lo])]
    ELSE LET mid == (lo + hi) \div 2
             h1  == sort_loop(h, new, src, ix, lo, mid)
         IN  IF Cols(h1[new]) >= 0
             THEN sort_loop(h1, new, src, ix, mid + 1, hi)
             ELSE h1

\* the heap after sort_layer2(W2) and the address it returns
sort_layer2(h, src) ==
    LET ix  == Idxs(h[src])
        new == copy(src)
        h1  == [h EXCEPT ![new] = h[src]]
    IN  [heap |-> sort_loop(h1, new, src, ix, 1, Len(ix)), ret |-> new, idxs |-> ix]

-----------------------------------------------------------------------------
(* show_mat_product and the viewers *)

Transpose(M) == [c \in 1..Len(M[1]) |-> [r \in 1..Len(M) |-> M[r][c]]]

\* np.dot(W1, W2): W1 is D x N1 (integers), A is N1 x N2
Dot(M, A) == [d \in 1..Len(M) |->
                [c \in 1..Cols(A) |->
                    FSum([k \in 1..Rows(A) |-> FMul(Frac(M[d][k], 1), Entry(A, k, c))])]]

make_viewer(data) == [kind |-> "prod", data |-> data]

\* dataset.get_weights_view(W1.T): one image per first-layer unit, the
\* unit's weight vector
get_weights_view(WT) == WT

\* a Python string or None
Str(s) == [none |-> FALSE, str |-> s]
None == [none |-> TRUE, str |-> ""]

\* out_prefix + ".png" used for the product image too
ProdPathPlain(prefix) == <<prefix.str, ".png">>

\* out_prefix + "_prod.png"
ProdPath(prefix) == <<prefix.str, "_prod.png">>

\* out_prefix + ".png"
GridPath(prefix) == <<prefix.str, ".png">>

\* pv.show() when out_prefix is None, else pv.save(path)
Emit(outs, prefix, pv, path) ==
    IF prefix = None
    THEN Append(outs, [op |-> "show", path |-> <<>>, pv |-> pv])
    ELSE Append(outs, [op |-> "save", path |-> path, pv |-> pv])

-----------------------------------------------------------------------------
(* get_elements_count *)

thresh == Frac(thresh_num, thresh_den)

\* wa = np.abs(w)
AbsVec(w) == list([k \in 1..Len(w) |-> FAbs(w[k])])

\* s = np.asarray(sorted(wa))
SortedVec(wa) == LET t == sorted([k \in 1..Len(wa) |-> <<wa[k]>>])
                 IN  list([k \in 1..Len(t) |-> t[k][1]])

\* s[:count]: the first count elements, the smallest ones
FirstSlice(s, count) == SubSeq(s, 1, Min(count, Len(s)))

\* s[-count:]: the last count elements, all of s when count > len(s)
LastSlice(s, count) == SubSeq(s, Max(1, Len(s) - count + 1), Len(s))

\* the loop test with <= in place of <
LoopCondLeq(s, count, total) ==
    LET a == FSum(LastSlice(s, count))
        b == FMul(thresh, total)
    IN  FLess(a, b) \/ FEq(a, b)

\* s[-count:].sum() < thresh * total
LoopCond(s, count, total) == FLess(FSum(LastSlice(s, count)), FMul(thresh, total))

\* the tail of get_elements_count without the limit
FinalCountNoLim(max_count, N1) == IF max_count > N1 THEN N1 ELSE max_count

\* the tail of get_elements_count with the limit applied to counts >= lim
FinalCountEarly(max_count, N1) ==
    LET c1 == IF max_count >= lim THEN lim - 1 ELSE max_count
    IN  IF c1 > N1 THEN N1 ELSE c1

\* count = max_count; if count > lim: count = lim; if count > N1: count = N1
FinalCount(max_count, N1) ==
    LET c1 == IF max_count > lim THEN lim ELSE max_count
    IN  IF c1 > N1 THEN N1 ELSE c1

-----------------------------------------------------------------------------
(* create_connect_viewer *)

\* w /= np.abs(w).max() on the view w = W2[:, i]: the array itself changes
NormalizeColumn(A, i) ==
    LET w == Column(A, i)
        m == FMaxSeq(AbsVec(w))
        q == list([r \in 1..Rows(A) |-> FDiv(w[r], m)])
    IN  [num |-> [r \in 1..Rows(A) |-> [A.num[r] EXCEPT ![i] = q[r].num]],
         den |-> [A.den EXCEPT ![i] = q[1].den]]

\* s = sorted(zip(wa, range(N1), w))
RowSorted(w, N1) == sorted([k \in 1..N1 |-> <<FAbs(w[k]), Frac(k, 1), w[k]>>])

\* the activation with the channels swapped
ActivationSwapped(mag) == IF FLess(Zero, mag) THEN <<Zero, mag>> ELSE <<FNeg(mag), Zero>>

\* if mag > 0: act = (mag, 0) else: act = (0, -mag)
Activation(mag) == IF FLess(Zero, mag) THEN <<mag, Zero>> ELSE <<Zero, FNeg(mag)>>

\* the element of s read at step j, counted from the start of s
PickFromStart(s, N1, j) == s[j]

\* s[N1-j-1] for the j-th cell of a row (j = 1 is the first cell)
Pick(s, N1, j) == s[N1 - j + 1]

\* PatchViewer((N, count), ...)
PatchViewer(shape) == [kind |-> "grid", shape |-> shape, patches |-> <<>>]

\* pv.add_patch(img, rescale=True, activation=act): cells fill row by row
add_patch(pv, img, act) ==
    [pv EXCEPT !.patches = Append(@, [img |-> img, activation |-> act])]

RECURSIVE RowPatches(_, _, _, _, _, _)
\* for j in xrange(count): ... pv.add_patch(imgs[idx, ...], activation=act)
RowPatches(pv, s, N1, imgs, count, j) ==
    IF j > count THEN pv
    ELSE LET e   == Pick(s, N1, j)
             idx == e[2].num
             mag == e[3]
         IN  RowPatches(add_patch(pv, imgs[idx], Activation(mag)), s, N1, imgs, count, j + 1)

-----------------------------------------------------------------------------
(* The inputs of a run: the command line and the saved model *)

ArgvSet == { <<"top_filters">>,
             <<"top_filters", "m.pkl">>,
             <<"top_filters", "m.pkl", "P">>,
             <<"top_filters", "m.pkl", "P", "x">> }

\* every N1 x N2 matrix over Vals with N1 * N2 <= MaxCells
ExhShapes == {sh \in (1..MaxCells) \X (1..MaxCells) : sh[1] * sh[2] <= MaxCells}
ExhW2 == UNION {[1..sh[1] -> [1..sh[2] -> Vals]] : sh \in ExhShapes}

\* WideN1 rows, one or two columns; a column is t equal weights then zeros,
\* and a second column is all zero, a single weight or WideN1 equal weights
StepCol(t, a) == [r \in 1..WideN1 |-> IF r <= t THEN a ELSE 0]
WideCols == {StepCol(t, a) : t \in 0..WideN1, a \in {-1, 1}}
WideSecond == {StepCol(0, 1), StepCol(1, 1), StepCol(WideN1, -1)}
WideW2 == {[r \in 1..WideN1 |-> [c \in 1..Len(cs) |-> cs[c][r]]] :
              cs \in {<<a>> : a \in WideCols}
                      \cup {<<a, b>> : a \in WideCols, b \in WideSecond}}

\* two rows, ManyN2 columns: column p is (1, 1), the others (a, 0)
ManyW2 == {[r \in 1..2 |-> [c \in 1..ManyN2 |->
                IF c = p THEN 1 ELSE IF r = 1 THEN a ELSE 0]] :
              p \in {1, ManyN2}, a \in {1, 2}}

\* W1: N1 x N1, u on the diagonal
W1Of(n1, u) == [d \in 1..n1 |-> [k \in 1..n1 |-> IF d = k THEN u ELSE 0]]

Models == {[W1 |-> W1Of(Len(m), u), W2 |-> m] :
              m \in ExhW2 \cup WideW2 \cup ManyW2, u \in {1, 2}}

NoGec == [i |-> 0, max_count |-> 0, total_counts |-> 0, count |-> 0,
          total |-> Zero, s |-> <<>>]
NoCcv == [i |-> 0, pv |-> PatchViewer(<<0, 0>>)]
NoSc  == [W2 |-> 0, N1 |-> 0, N |-> 0, count |-> 0]

Init ==
    /\ argv \in ArgvSet
    /\ pkl \in Models
    /\ pc = "start"
    /\ err = "none"
    /\ model_path = None
    /\ out_prefix = None
    /\ heap = [a \in 1..2 |-> NoArray]
    /\ W1 = <<>>
    /\ W2 = 0
    /\ sc = NoSc
    /\ idxs = <<>>
    /\ gec = NoGec
    /\ ccv = NoCcv
    /\ outputs = <<>>

-----------------------------------------------------------------------------
(* __main__ *)

\* if len(sys.argv) == 2: ... else: _, model_path, out_prefix = sys.argv
\* the unpacking raises ValueError unless there are exactly three elements
Main_Args ==
    /\ pc = "start"
    /\ IF Len(argv) = 2
       THEN /\ model_path' = Str(argv[2])
            /\ out_prefix' = None
            /\ pc' = "load"
            /\ err' = err
       ELSE IF Len(argv) = 3
       THEN /\ model_path' = Str(argv[2])
            /\ out_prefix' = Str(argv[3])
            /\ pc' = "load"
            /\ err' = err
       ELSE /\ err' = "ValueError"
            /\ pc' = "exit"
            /\ UNCHANGED <<model_path, out_prefix>>
    /\ UNCHANGED <<argv, pkl, heap, W1, W2, sc, idxs, gec, ccv, outputs>>

\* model = serial.load(model_path); W1 = ...get_weights(); W2 = ...get_weights()
Main_Load ==
    /\ pc = "load"
    /\ W1' = pkl.W1
    /\ heap' = [heap EXCEPT ![1] = Loaded(pkl.W2)]
    /\ W2' = 1
    /\ pc' = "prod"
    /\ UNCHANGED <<argv, pkl, err, model_path, out_prefix, sc, idxs, gec, ccv, outputs>>

\* show_mat_product(W1, W2, out_prefix)
show_mat_product ==
    /\ pc = "prod"
    /\ LET prod == Dot(W1, heap[W2])
           pv   == make_viewer(Transpose(prod))
       IN  outputs' = Emit(outputs, out_prefix, pv, ProdPath(out_prefix))
    /\ pc' = "connections"
    /\ UNCHANGED <<argv, pkl, err, model_path, out_prefix, heap, W1, W2, sc, idxs, gec, ccv>>

\* imgs = dataset.get_weights_view(W1.T)
imgs == get_weights_view(Transpose(W1))

-----------------------------------------------------------------------------
(* show_connections *)

\* W2 = sort_layer2(W2); N1 = W1.shape[1]; N = min(W2.shape[1], 100)
SC_Begin ==
    /\ pc = "connections"
    /\ LET r == sort_layer2(heap, W2)
       IN  /\ heap' = r.heap
           /\ idxs' = r.idxs
           /\ sc' = [sc EXCEPT !.W2 = r.ret,
                               !.N1 = Len(W1[1]),
                               !.N  = Min(Cols(r.heap[r.ret]), row_limit)]
    /\ pc' = "gec_call"
    /\ UNCHANGED <<argv, pkl, err, model_path, out_prefix, W1, W2, gec, ccv, outputs>>

\* count = get_elements_count(N, N1, W2): entry, max_count = 0, total_counts = 0.
GEC_Begin ==
    /\ pc = "gec_call"
    /\ gec' = [NoGec EXCEPT !.i = 1]
    /\ pc' = "gec_for"
    /\ UNCHANGED <<argv, pkl, err, model_path, out_prefix, heap, W1, W2, sc, idxs, ccv, outputs>>

\* for i in xrange(N): w = W2[:, i]; wa; total; s; count = 1
GEC_ColStart ==
    /\ pc = "gec_for"
    /\ gec.i <= sc.N
    /\ LET wa == AbsVec(Column(heap[sc.W2], gec.i))
       IN  gec' = [gec EXCEPT !.total = FSum(wa), !.s = SortedVec(wa), !.count = 1]
    /\ pc' = "gec_while"
    /\ UNCHANGED <<argv, pkl, err, model_path, out_prefix, heap, W1, W2, sc, idxs, ccv, outputs>>

\* while s[-count:].sum() < thresh * total: count += 1
GEC_WhileBody ==
    /\ pc = "gec_while"
    /\ LoopCond(gec.s, gec.count, gec.total)
    /\ gec' = [gec EXCEPT !.count = @ + 1]
    /\ UNCHANGED <<argv, pkl, pc, err, model_path, out_prefix, heap, W1, W2, sc, idxs, ccv, outputs>>

\* the loop test fails: if count > max_count: max_count = count; total_counts += count
GEC_ColEnd ==
    /\ pc = "gec_while"
    /\ ~LoopCond(gec.s, gec.count, gec.total)
    /\ gec' = [gec EXCEPT !.max_count = IF gec.count > @ THEN gec.count ELSE @,
                          !.total_counts = @ + gec.count,
                          !.i = @ + 1]
    /\ pc' = "gec_for"
    /\ UNCHANGED <<argv, pkl, err, model_path, out_prefix, heap, W1, W2, sc, idxs, ccv, outputs>>

\* after the for loop: ave = total_counts / float(N) (N >= 1 here), the limit,
\* return count; then pv = create_connect_viewer(...) is entered
GEC_Return ==
    /\ pc = "gec_for"
    /\ gec.i > sc.N
    /\ sc' = [sc EXCEPT !.count = FinalCount(gec.max_count, sc.N1)]
    /\ ccv' = [i |-> 1, pv |-> PatchViewer(<<sc.N, FinalCount(gec.max_count, sc.N1)>>)]
    /\ pc' = "ccv_for"
    /\ UNCHANGED <<argv, pkl, err, model_path, out_prefix, heap, W1, W2, idxs, gec, outputs>>

\* one pass of for i in xrange(N) in create_connect_viewer
CCV_Row ==
    /\ pc = "ccv_for"
    /\ ccv.i <= sc.N
    /\ LET A == NormalizeColumn(heap[sc.W2], ccv.i)
           s == RowSorted(Column(A, ccv.i), sc.N1)
       IN  /\ heap' = [heap EXCEPT ![sc.W2] = A]
           /\ ccv' = [ccv EXCEPT !.pv = RowPatches(@, s, sc.N1, imgs, sc.count, 1),
                                 !.i = @ + 1]
    /\ UNCHANGED <<argv, pkl, pc, err, model_path, out_prefix, W1, W2, sc, idxs, gec, outputs>>

\* return pv; if out_prefix is None: pv.show() else: pv.save(out_prefix+".png")
SC_Output ==
    /\ pc = "ccv_for"
    /\ ccv.i > sc.N
    /\ outputs' = Emit(outputs, out_prefix, ccv.pv, GridPath(out_prefix))
    /\ pc' = "exit"
    /\ UNCHANGED <<argv, pkl, err, model_path, out_prefix, heap, W1, W2, sc, idxs, gec, ccv>>

Next ==
    \/ Main_Args
    \/ Main_Load
    \/ show_mat_product
    \/ SC_Begin
    \/ GEC_Begin
    \/ GEC_ColStart
    \/ GEC_WhileBody
    \/ GEC_ColEnd
    \/ GEC_Return
    \/ CCV_Row
    \/ SC_Output

Spec == Init /\ [][Next]_vars

-----------------------------------------------------------------------------
(* What the properties speak about, stated on the saved weights (integers) *)

InN1 == Len(pkl.W2)
InN2 == Len(pkl.W2[1])
AfterSort == pc \in {"gec_call", "gec_for", "gec_while", "ccv_for"}
             \/ (pc = "exit" /\ err = "none")

RECURSIVE SumInt(_)
SumInt(q) == IF q = <<>> THEN 0 ELSE q[1] + SumInt(Tail(q))

\* the sum of squares of column c of the saved W2
NormInt(c) == SumInt([r \in 1..InN1 |-> pkl.W2[r][c] * pkl.W2[r][c]])

\* the weight from first-layer unit r into the second-layer unit of row i
SortedInt(r, i) == pkl.W2[r][idxs[i]]
AbsColInt(i) == [r \in 1..InN1 |-> AbsInt(SortedInt(r, i))]
MaxAbsInt(i) == CHOOSE m \in {AbsColInt(i)[r] : r \in 1..InN1} :
                    \A r \in 1..InN1 : AbsColInt(i)[r] <= m

\* the place of entry k among the entries of v, largest first
Rank(v, k) == 1 + Cardinality({l \in 1..Len(v) : v[l] > v[k] \/ (v[l] = v[k] /\ l < k)})
\* the sum of the c largest entries of v
TopSum(v, c) == SumInt([k \in 1..Len(v) |-> IF Rank(v, k) <= c THEN v[k] ELSE 0])
Covers(v, c) == thresh_den * TopSum(v, c) >= thresh_num * SumInt(v)
\* the smallest c >= 1 whose c largest entries reach thresh of the total
NeededCount(v) == CHOOSE c \in 1..Len(v) : Covers(v, c) /\ \A d \in 1..(c - 1) : ~Covers(v, d)

\* the columns get_elements_count looks at
Considered == 1..Min(InN2, row_limit)
MaxNeeded == CHOOSE m \in {NeededCount(AbsColInt(i)) : i \in Considered} :
                 \A i \in Considered : NeededCount(AbsColInt(i)) <= m

\* the patch of grid cell (i, j), cells filled row by row
Cell(i, j) == ccv.pv.patches[(i - 1) * sc.count + j]
\* the first-layer unit whose image a patch shows
UnitOf(p) == CHOOSE k \in 1..InN1 : imgs[k] = p.img
RowsDone == 1..(ccv.i - 1)
NonZero(x) == ~FEq(x, Zero)

-----------------------------------------------------------------------------
(* C1 *)

\* C1: sort_layer2 returns the columns of W2 permuted: output column k is the
\* input column ranked k by (larger sum of squares first, then smaller
\* original index); same shape, same columns.
Thm_C1 ==
    pc = "gec_call" =>
        /\ Len(idxs) = InN2
        /\ {idxs[k] : k \in 1..InN2} = 1..InN2
        /\ Rows(heap[sc.W2]) = InN1 /\ Cols(heap[sc.W2]) = InN2
        /\ \A k \in 1..InN2 : \A r \in 1..InN1 :
               Entry(heap[sc.W2], r, k) = Frac(pkl.W2[r][idxs[k]], 1)
        /\ \A k, l \in 1..InN2 : k < l =>
               \/ NormInt(idxs[k]) > NormInt(idxs[l])
               \/ (NormInt(idxs[k]) = NormInt(idxs[l]) /\ idxs[k] < idxs[l])

\* a sort that moved the first column and kept two columns of equal norm in
\* their original order
Wit_C1 ==
    /\ pc = "gec_call"
    /\ InN2 >= 3
    /\ idxs[1] # 1
    /\ \E k, l \in 1..InN2 : k < l /\ NormInt(idxs[k]) = NormInt(idxs[l])

-----------------------------------------------------------------------------
(* C2 *)

\* C2: when the while loop of get_elements_count exits for a column, count
\* is the smallest c >= 1 such that the c largest absolute values of the
\* column sum to at least 0.9 of the column's total absolute value.
Thm_C2 ==
    (pc = "gec_for" /\ gec.i > 1) => gec.count = NeededCount(AbsColInt(gec.i - 1))

\* the loop has exited on a column that needed at least three elements
Wit_C2 ==
    /\ pc = "gec_for" /\ gec.i > 1
    /\ gec.count >= 3
    /\ NeededCount(AbsColInt(gec.i - 1)) = gec.count

-----------------------------------------------------------------------------
(* C3 *)

\* C3: get_elements_count returns min(M, 10, N1), M the largest per-column
\* count over the first N = min(N2, 100) columns of the sorted W2; the one
\* value is the width of every row of the grid.
Thm_C3 ==
    pc = "ccv_for" =>
        /\ sc.N = Min(InN2, row_limit)
        /\ sc.count = Min(Min(MaxNeeded, lim), sc.N1)
        /\ ccv.pv.shape = <<sc.N, sc.count>>
        /\ Len(ccv.pv.patches) = (ccv.i - 1) * sc.count

\* more than 100 columns, and the column left out is the one that needs most
Wit_C3 ==
    /\ pc = "ccv_for" /\ ccv.i > 1
    /\ InN2 > row_limit
    /\ sc.count = 1
    /\ \E c \in 1..InN2 : NeededCount([r \in 1..InN1 |-> AbsInt(pkl.W2[r][c])]) = 2

-----------------------------------------------------------------------------
(* C4 *)

\* C4 as stated: the returned count is <= 10, <= N1 and >= the per-column
\* count of every column considered.
Cex_C4 ==
    pc = "ccv_for" =>
        /\ sc.count <= lim
        /\ sc.count <= sc.N1
        /\ \A i \in Considered : sc.count >= NeededCount(AbsColInt(i))

\* C4 amended: the returned count is <= 10, <= N1 and, for every column
\* considered, >= the smaller of that column's count and 10.
Thm_C4 ==
    pc = "ccv_for" =>
        /\ sc.count <= lim
        /\ sc.count <= sc.N1
        /\ \A i \in Considered : sc.count >= Min(NeededCount(AbsColInt(i)), lim)

\* a column needs more than 10 elements and 10 are shown
Wit_C4 ==
    /\ pc = "ccv_for"
    /\ sc.count = lim
    /\ \E i \in Considered : NeededCount(AbsColInt(i)) > lim

-----------------------------------------------------------------------------
(* C5 *)

\* C5: on an all-zero column the while loop of get_elements_count does not
\* run its body: the test is false at once, the count of the column is 1.
Thm_C5 ==
    /\ (pc = "gec_while" /\ \A r \in 1..InN1 : SortedInt(r, gec.i) = 0)
          => (gec.count = 1 /\ ~ENABLED GEC_WhileBody /\ ENABLED GEC_ColEnd)
    /\ (pc = "gec_for" /\ gec.i > 1 /\ \A r \in 1..InN1 : SortedInt(r, gec.i - 1) = 0)
          => gec.count = 1

\* the loop has exited on an all-zero column that stands beside a non-zero one
Wit_C5 ==
    /\ pc = "gec_for" /\ gec.i > 2
    /\ InN1 >= 2
    /\ \A r \in 1..InN1 : SortedInt(r, gec.i - 1) = 0
    /\ gec.count = 1
    /\ gec.max_count > 1

-----------------------------------------------------------------------------
(* C6 *)

\* what the claim says of the cell (i, j): one non-zero component, equal to
\* the absolute value of the normalized weight, first channel for a positive
\* weight and second for a negative one.  On an all-zero column both the
\* component and the normalized weight are NaN, which is taken as agreeing
CellActivationOK(i, j) ==
    LET p == Cell(i, j)
        w == SortedInt(UnitOf(p), i)
        a == p.activation
        n == Frac(AbsInt(w), MaxAbsInt(i))
    IN  /\ Cardinality({c \in 1..2 : NonZero(a[c])}) = 1
        /\ \A c \in 1..2 : NonZero(a[c]) => (FEq(a[c], n) \/ (IsNaN(a[c]) /\ IsNaN(n)))
        /\ (w > 0 => NonZero(a[1]))
        /\ (w < 0 => NonZero(a[2]))

\* C6 as stated: every cell added to the grid has exactly one non-zero
\* activation component, the normalized absolute weight, in the channel of
\* the weight's sign.
Cex_C6 ==
    pc = "ccv_for" =>
        \A i \in RowsDone : \A j \in 1..sc.count : CellActivationOK(i, j)

\* C6 amended: every cell added to the grid whose normalized weight is a
\* non-zero number (neither zero nor NaN) has exactly one non-zero
\* activation component, the normalized absolute weight, in the first
\* channel for a positive weight and in the second for a negative one.
Thm_C6 ==
    pc = "ccv_for" =>
        \A i \in RowsDone : \A j \in 1..sc.count :
            LET x == Entry(heap[sc.W2], UnitOf(Cell(i, j)), i)
            IN  (~IsNaN(x) /\ ~FEq(x, Zero)) => CellActivationOK(i, j)

\* a cell with a negative weight that is not the largest of its column
Wit_C6 ==
    /\ pc = "ccv_for"
    /\ \E i \in RowsDone : \E j \in 1..sc.count :
          LET w == SortedInt(UnitOf(Cell(i, j)), i)
          IN  w < 0 /\ AbsInt(w) < MaxAbsInt(i)

-----------------------------------------------------------------------------
(* C7 *)

\* C7: every finished row i of the grid has exactly count cells; cell (i, j)
\* shows the unit with the j-th largest absolute weight of column i of the
\* sorted W2: the units of a row are distinct and within 1..N1, their
\* absolute weights do not increase along the row, and no unit left out
\* has a strictly larger absolute weight than a unit shown.
Thm_C7 ==
    pc = "ccv_for" =>
        /\ Len(ccv.pv.patches) = (ccv.i - 1) * sc.count
        /\ ccv.i - 1 <= sc.N
        /\ \A i \in RowsDone :
              LET v == AbsColInt(i)
                  u == [j \in 1..sc.count |-> UnitOf(Cell(i, j))]
              IN  /\ \A j \in 1..sc.count :
                         /\ Cell(i, j).img \in {imgs[k] : k \in 1..sc.N1}
                         /\ u[j] \in 1..sc.N1
                  /\ \A j, k \in 1..sc.count : j # k => u[j] # u[k]
                  /\ \A j, k \in 1..sc.count : j < k => v[u[j]] >= v[u[k]]
                  /\ \A r \in 1..sc.N1 : \A j \in 1..sc.count :
                         r \notin {u[k] : k \in 1..sc.count} => v[r] <= v[u[j]]

\* the grid is complete, with at least two rows of at least two cells, and a
\* row leaves a unit out
Wit_C7 ==
    /\ pc = "ccv_for" /\ ccv.i > sc.N
    /\ sc.N >= 2 /\ sc.count >= 2
    /\ sc.N1 > sc.count
    /\ \E r \in 1..sc.N1 : AbsColInt(1)[r] < AbsColInt(1)[UnitOf(Cell(1, 2))]

-----------------------------------------------------------------------------
(* C8 *)

\* C8: the caller's W2 is never changed: after sort_layer2, and after the
\* renderer's in-place normalization, it equals the array as loaded, and
\* the sorted array is another array.
Thm_C8 ==
    /\ pc \in {"prod", "connections"} => heap[W2] = Loaded(pkl.W2)
    /\ AfterSort => (heap[W2] = Loaded(pkl.W2) /\ sc.W2 # W2)

\* the run is over, the sort moved columns and the normalization changed the
\* sorted array
Wit_C8 ==
    /\ pc = "exit" /\ err = "none"
    /\ idxs[1] # 1
    /\ \E c \in 1..InN2 : heap[sc.W2].den[c] > 1
    /\ heap[W2] = Loaded(pkl.W2)

-----------------------------------------------------------------------------
(* C9 *)

\* W1 . W2 on the saved weights, transposed
ProductT == [c \in 1..InN2 |-> [d \in 1..Len(pkl.W1) |->
               Frac(SumInt([k \in 1..InN1 |-> pkl.W1[d][k] * pkl.W2[k][c]]), 1)]]

\* C9: a completed run emits exactly two outputs, the product image and then
\* the grid: both shown and nothing saved without a prefix; with prefix P,
\* P_prod.png and then P.png saved and nothing shown.  The product image is
\* that of the W2 as loaded.
Thm_C9 ==
    /\ Len(outputs) <= 2
    /\ (pc = "exit" /\ err = "none") =>
          /\ Len(outputs) = 2
          /\ outputs[1].pv = [kind |-> "prod", data |-> ProductT]
          /\ outputs[2].pv = ccv.pv /\ outputs[2].pv.kind = "grid"
          /\ Len(argv) = 2 => \A k \in 1..2 : outputs[k].op = "show" /\ outputs[k].path = <<>>
          /\ Len(argv) = 3 =>
                /\ \A k \in 1..2 : outputs[k].op = "save"
                /\ outputs[1].path = <<argv[3], "_prod.png">>
                /\ outputs[2].path = <<argv[3], ".png">>

\* a run with a prefix has saved both images
Wit_C9 ==
    /\ pc = "exit" /\ err = "none"
    /\ Len(argv) = 3
    /\ Len(outputs) = 2
    /\ outputs[2].op = "save"
    /\ InN2 >= 2

-----------------------------------------------------------------------------
(* C10 *)

\* C10: a run with 0 or with 3 or more positional arguments ends in a usage
\* error, not in an unhandled exception; no model is loaded and nothing is
\* shown or saved.
Cex_C10 ==
    (pc = "exit" /\ Len(argv) \notin {2, 3}) =>
        /\ err = "usage"
        /\ W2 = 0 /\ W1 = <<>>
        /\ outputs = <<>>

====
